---- MODULE Spec2Model ----
(***************************************************************************)
(* StudyHub backend: group creation and the transactional join handler of  *)
(* src/server.js, over a PostgreSQL store in its default READ COMMITTED    *)
(* isolation.  The repository ships no schema, so the tables carry no      *)
(* constraint: group_members is a bag of rows, and a write to it neither   *)
(* takes nor waits for a lock on a groups row.                             *)
(*                                                                         *)
(* One action per awaited statement of a handler: the store executes the   *)
(* statement and the handler runs on, synchronously, to its next await.    *)
(***************************************************************************)
EXTENDS Integers, Sequences, FiniteSets, Bags, TLC

\* ------------------------------------------------------------------ bounds
\* users holding a token
NumUsers == 2
\* join requests on a created group (SpecJoin)
NumJoins == 3
\* createGroup requests, and the join requests racing them (Spec)
NumCreates == 2
NumRaceJoins == 2
\* join requests whose statements may throw (SpecFault, SpecConnect)
NumFaultJoins == 2
\* users who are not the owner of the group they race for (SpecNaive, SpecCheckOnly)
NumRivals == 2
\* register or login requests in flight, distinct emails, distinct passwords
NumAuths == 2
\* requests to the routes behind authMiddleware
NumCalls == 2
\* GET /api/match requests, and the subjects of the reference table
NumMatchCalls == 1
\* createGroup requests beside the joins, and the largest pool (SpecClients)
NumPoolCreates == 1
MaxPool == 2
NumSubjects == 2
NumEmails == 2
NumPasswords == 2
\* largest max_members a request asks for
MaxCap == 2

Users == 1..NumUsers

\* -------------------------------------------------------------- constants
\* max_members || 10
DefaultMaxMembers == 10

\* LIMIT 50
MatchLimit == 50

\* new Pool({ connectionString, ssl }): max is not set, pg's default is 10
DefaultPoolMax == 10

\* group_members.role when the INSERT names no role
DefaultRole == "member"

\* req.body.email, req.body.password, req.body.display_name; 0 stands for a missing
\* (falsy) field
Emails == 1..NumEmails
ReqEmails == 0..NumEmails
ReqPasswords == 0..NumPasswords
ReqNames == 0..1

\* req.body.max_members; 0 stands for every falsy value (omitted, null, 0)
ReqMaxMembers == 0..MaxCap

VARIABLES
    groups,         \* table groups: sequence of rows, the serial id is the index
    group_members,  \* table group_members: bag of committed rows
    locks,          \* row locks on groups: set of <<group id, join request>>
    joins,          \* POST /api/groups/:id/join requests in flight
    creates,        \* POST /api/groups requests in flight
    users,          \* table users: set of rows, one per email
    auths,          \* POST /api/register and POST /api/login requests in flight
    calls,          \* requests to the routes behind authMiddleware
    profiles,       \* table profiles: user_id -> row
    user_subjects,  \* table user_subjects: <<user_id, subject_id>> -> level
    group_messages, \* table group_messages: sequence of rows in insertion order
    pool_max        \* the most clients the pool hands out at a time

vars == <<groups, group_members, locks, joins, creates, users, auths,
          calls, profiles, user_subjects, group_messages, pool_max>>

\* no request to the other routes, and their tables empty
NoCalls ==
    /\ calls = <<>>
    /\ profiles = <<>>
    /\ user_subjects = <<>>
    /\ group_messages = <<>>

JoinIds == DOMAIN joins
CreateIds == DOMAIN creates
AuthIds == DOMAIN auths
CallIds == DOMAIN calls
GroupIds == 1..Len(groups)

\* ------------------------------------------------------------------ store
MemberRow(g, u, role) == [group_id |-> g, user_id |-> u, role |-> role]

\* a count that leaves the owner's row out
CountMembers_NoOwner(rows, g) ==
    LET hit == {r \in BagToSet(rows) : r.group_id = g /\ r.role # "owner"}
    IN  BagCardinality([r \in hit |-> rows[r]])

\* SELECT COUNT(*) FROM group_members WHERE group_id = $1
CountMembers(rows, g) ==
    LET hit == {r \in BagToSet(rows) : r.group_id = g}
    IN  BagCardinality([r \in hit |-> rows[r]])

\* SELECT * FROM group_members WHERE group_id = $1 AND user_id = $2  (rows.length)
SelectMember(rows, g, u) ==
    LET hit == {r \in BagToSet(rows) : r.group_id = g /\ r.user_id = u}
    IN  BagCardinality([r \in hit |-> rows[r]])

\* SELECT max_members FROM groups WHERE id = $1  (the rows found)
SelectGroup(g) == IF g \in GroupIds THEN <<groups[g]>> ELSE <<>>

\* what a statement of join request j reads: committed rows and its own writes
Visible(j) == group_members (+) joins[j].pending

\* a read that takes the lock without waiting for its holder
LockFree_NoWait(g, j) == TRUE

\* one lock for the whole table: any other transaction's lock makes the read wait
LockFree_Global(g, j) == \A l \in locks : l[2] = j

\* ... FOR UPDATE waits while another transaction holds the row's lock
LockFree(g, j) == \A l \in locks : l[1] = g => l[2] = j

\* a COMMIT or ROLLBACK after which the row lock stays
Release_Kept(j) == locks

\* COMMIT and ROLLBACK release every lock of the transaction
Release(j) == {l \in locks : l[2] # j}

\* max_members || 10
MaxMembersOrDefault(m) == IF m = 0 THEN DefaultMaxMembers ELSE m

\* --------------------------------------------------------------- requests
JoinReq(u, g) ==
    [user |-> u, groupId |-> g, pc |-> "connect", txn |-> "none",
     max_members |-> 0, memberCount |-> 0, pending |-> EmptyBag,
     status |-> 0, error |-> "", failed |-> "", released |-> 0]

CreateReq(u, m) ==
    [user |-> u, max_members |-> m, title |-> 1, subject_id |-> 1,
     pc |-> "insert_group", groupId |-> 0, status |-> 0]

\* the capacity test off by one
GroupIsFull_Off(memberCount, max_members) == memberCount > max_members

\* memberCount >= group.max_members
GroupIsFull(memberCount, max_members) == memberCount >= max_members

\* the answer each ROLLBACK-and-return branch of the join handler sends
RejectStatus(pc) == IF pc = "rollback_notfound" THEN 404 ELSE 400

RejectError(pc) ==
    CASE pc = "rollback_notfound" -> "Group not found"
      [] pc = "rollback_full"     -> "Group is full"
      [] pc = "rollback_member"   -> "Already a member"

\* ------------------------------------------- POST /api/groups/:id/join
\* const client = await pool.connect()
JoinConnect(j) ==
    /\ joins[j].pc = "connect"
    /\ joins' = [joins EXCEPT ![j].pc = "begin"]
    /\ UNCHANGED <<groups, group_members, locks, creates, users, auths, calls, profiles, user_subjects, group_messages, pool_max>>

\* await client.query('BEGIN')
JoinBegin(j) ==
    /\ joins[j].pc = "begin"
    /\ joins' = [joins EXCEPT ![j].pc = "select_group", ![j].txn = "open"]
    /\ UNCHANGED <<groups, group_members, locks, creates, users, auths, calls, profiles, user_subjects, group_messages, pool_max>>

\* the read of the group row without FOR UPDATE: no lock is taken or waited for
JoinSelectGroup_NoLock(j) ==
    LET g == joins[j].groupId
        groupResult == SelectGroup(g)
    IN  /\ joins[j].pc = "select_group"
        /\ joins' = IF Len(groupResult) = 0
                    THEN [joins EXCEPT ![j].pc = "rollback_notfound"]
                    ELSE [joins EXCEPT ![j].pc = "count",
                                       ![j].max_members = groupResult[1].max_members]
        /\ UNCHANGED <<groups, group_members, locks, creates, users, auths, calls, profiles, user_subjects, group_messages, pool_max>>

\* SELECT max_members FROM groups WHERE id = $1 FOR UPDATE, then the rows.length test
JoinSelectGroup(j) ==
    LET g == joins[j].groupId
        groupResult == SelectGroup(g)
    IN  /\ joins[j].pc = "select_group"
        /\ IF Len(groupResult) = 0
           THEN /\ joins' = [joins EXCEPT ![j].pc = "rollback_notfound"]
                /\ UNCHANGED locks
           ELSE /\ LockFree(g, j)
                /\ locks' = locks \cup {<<g, j>>}
                /\ joins' = [joins EXCEPT ![j].pc = "count",
                                          ![j].max_members = groupResult[1].max_members]
        /\ UNCHANGED <<groups, group_members, creates, users, auths, calls, profiles, user_subjects, group_messages, pool_max>>

\* SELECT COUNT(*) ..., then the capacity test
JoinCount(j) ==
    LET memberCount == CountMembers(Visible(j), joins[j].groupId)
    IN  /\ joins[j].pc = "count"
        /\ joins' = [joins EXCEPT
                        ![j].memberCount = memberCount,
                        ![j].pc = IF GroupIsFull(memberCount, joins[j].max_members)
                                  THEN "rollback_full" ELSE "exists"]
        /\ UNCHANGED <<groups, group_members, locks, creates, users, auths, calls, profiles, user_subjects, group_messages, pool_max>>

\* SELECT * FROM group_members WHERE group_id = $1 AND user_id = $2, then the rows.length test
JoinExists(j) ==
    LET existsResult == SelectMember(Visible(j), joins[j].groupId, joins[j].user)
    IN  /\ joins[j].pc = "exists"
        /\ joins' = [joins EXCEPT
                        ![j].pc = IF existsResult > 0 THEN "rollback_member" ELSE "insert"]
        /\ UNCHANGED <<groups, group_members, locks, creates, users, auths, calls, profiles, user_subjects, group_messages, pool_max>>

\* an INSERT for the group's owner instead of req.user.id
JoinInsert_ForOwner(j) ==
    LET row == MemberRow(joins[j].groupId, groups[joins[j].groupId].owner_id, DefaultRole)
    IN  /\ joins[j].pc = "insert"
        /\ joins' = [joins EXCEPT ![j].pc = "commit",
                                  ![j].pending = @ (+) SetToBag({row})]
        /\ UNCHANGED <<groups, group_members, locks, creates, users, auths, calls, profiles, user_subjects, group_messages, pool_max>>

\* INSERT INTO group_members (group_id, user_id) VALUES ($1, $2): uncommitted
JoinInsert(j) ==
    LET row == MemberRow(joins[j].groupId, joins[j].user, DefaultRole)
    IN  /\ joins[j].pc = "insert"
        /\ joins' = [joins EXCEPT ![j].pc = "commit",
                                  ![j].pending = @ (+) SetToBag({row})]
        /\ UNCHANGED <<groups, group_members, locks, creates, users, auths, calls, profiles, user_subjects, group_messages, pool_max>>

\* a COMMIT after which the table holds the transaction's rows only
JoinCommit_Overwrite(j) ==
    /\ joins[j].pc = "commit"
    /\ group_members' = joins[j].pending
    /\ locks' = Release(j)
    /\ joins' = [joins EXCEPT ![j].pc = "done", ![j].txn = "none",
                              ![j].pending = EmptyBag, ![j].status = 200,
                              ![j].released = @ + 1]
    /\ UNCHANGED <<groups, creates, users, auths, calls, profiles, user_subjects, group_messages, pool_max>>

\* COMMIT; res.json({ ok: true }); finally client.release()
JoinCommit(j) ==
    /\ joins[j].pc = "commit"
    /\ group_members' = group_members (+) joins[j].pending
    /\ locks' = Release(j)
    /\ joins' = [joins EXCEPT ![j].pc = "done", ![j].txn = "none",
                              ![j].pending = EmptyBag, ![j].status = 200,
                              ![j].released = @ + 1]
    /\ UNCHANGED <<groups, creates, users, auths, calls, profiles, user_subjects, group_messages, pool_max>>

\* a rejecting branch that answers without its ROLLBACK
JoinRollback_Skipped(j) ==
    /\ joins[j].pc \in {"rollback_notfound", "rollback_full", "rollback_member"}
    /\ joins' = [joins EXCEPT ![j].pc = "done",
                              ![j].status = RejectStatus(joins[j].pc),
                              ![j].error = RejectError(joins[j].pc),
                              ![j].released = @ + 1]
    /\ UNCHANGED <<groups, group_members, locks, creates, users, auths, calls, profiles, user_subjects, group_messages, pool_max>>

\* ROLLBACK; return res.status(..).json({ error }); finally client.release()
JoinRollback(j) ==
    /\ joins[j].pc \in {"rollback_notfound", "rollback_full", "rollback_member"}
    /\ locks' = Release(j)
    /\ joins' = [joins EXCEPT ![j].pc = "done", ![j].txn = "none",
                              ![j].pending = EmptyBag,
                              ![j].status = RejectStatus(joins[j].pc),
                              ![j].error = RejectError(joins[j].pc),
                              ![j].released = @ + 1]
    /\ UNCHANGED <<groups, group_members, creates, users, auths, calls, profiles, user_subjects, group_messages, pool_max>>

\* ---------------------------- POST /api/groups/:id/join: statements that throw
\* the awaits inside the try block
TryStatements ==
    {"begin", "select_group", "count", "exists", "insert", "commit",
     "rollback_notfound", "rollback_full", "rollback_member"}

\* pool.connect() rejects: the await is outside the try, the rejection leaves the
\* async handler and no response is sent
JoinConnectFails(j) ==
    /\ joins[j].pc = "connect"
    /\ joins' = [joins EXCEPT ![j].pc = "thrown", ![j].failed = "connect"]
    /\ UNCHANGED <<groups, group_members, locks, creates, users, auths, calls, profiles, user_subjects, group_messages, pool_max>>

\* a client.query inside the try throws without effect on the store: control goes to
\* the catch block; a COMMIT that throws has committed nothing
JoinQueryFails(j) ==
    /\ joins[j].pc \in TryStatements
    /\ joins' = [joins EXCEPT ![j].pc = "catch", ![j].failed = joins[j].pc]
    /\ UNCHANGED <<groups, group_members, locks, creates, users, auths, calls, profiles, user_subjects, group_messages, pool_max>>

\* catch: ROLLBACK; res.status(500).json({ error: 'Failed to join group' }); finally
\* client.release()
JoinCatch(j) ==
    /\ joins[j].pc = "catch"
    /\ locks' = Release(j)
    /\ joins' = [joins EXCEPT ![j].pc = "done", ![j].txn = "none",
                              ![j].pending = EmptyBag, ![j].status = 500,
                              ![j].error = "Failed to join group",
                              ![j].released = @ + 1]
    /\ UNCHANGED <<groups, group_members, creates, users, auths, calls, profiles, user_subjects, group_messages, pool_max>>

\* catch: the ROLLBACK throws: the exception leaves the handler before res.status(500);
\* finally client.release() hands the client back as it is
JoinCatchFails(j) ==
    /\ joins[j].pc = "catch"
    /\ joins' = [joins EXCEPT ![j].pc = "thrown", ![j].released = @ + 1]
    /\ UNCHANGED <<groups, group_members, locks, creates, users, auths, calls, profiles, user_subjects, group_messages, pool_max>>

\* -------------- POST /api/groups/:id/join without a transaction (pool.query each)
\* a request of these handlers starts at its first query
PoolReq(u, g, pc) == [JoinReq(u, g) EXCEPT !.pc = pc]

\* SELECT max_members FROM groups WHERE id = $1; 404 'Group not found' when no row
NaiveSelectGroup(j) ==
    /\ joins[j].pc = "select_group"
    /\ IF SelectGroup(joins[j].groupId) = <<>>
         THEN joins' = [joins EXCEPT ![j].pc = "done", ![j].status = 404,
                                     ![j].error = "Group not found"]
         ELSE joins' = [joins EXCEPT ![j].pc = "count",
                          ![j].max_members = groups[joins[j].groupId].max_members]
    /\ UNCHANGED <<groups, group_members, locks, creates, users, auths, calls, profiles, user_subjects, group_messages, pool_max>>

\* SELECT COUNT(*) FROM group_members WHERE group_id = $1
NaiveCount(j) ==
    /\ joins[j].pc = "count"
    /\ joins' = [joins EXCEPT ![j].pc = "exists",
                              ![j].memberCount = CountMembers(group_members, joins[j].groupId)]
    /\ UNCHANGED <<groups, group_members, locks, creates, users, auths, calls, profiles, user_subjects, group_messages, pool_max>>

\* SELECT * FROM group_members WHERE group_id = $1 AND user_id = $2; then
\* 400 'Already a member', else 400 'Group full' when memberCount >= max_members
NaiveExists(j) ==
    /\ joins[j].pc = "exists"
    /\ IF SelectMember(group_members, joins[j].groupId, joins[j].user) > 0
         THEN joins' = [joins EXCEPT ![j].pc = "done", ![j].status = 400,
                                     ![j].error = "Already a member"]
         ELSE IF GroupIsFull(joins[j].memberCount, joins[j].max_members)
                THEN joins' = [joins EXCEPT ![j].pc = "done", ![j].status = 400,
                                            ![j].error = "Group full"]
                ELSE joins' = [joins EXCEPT ![j].pc = "insert"]
    /\ UNCHANGED <<groups, group_members, locks, creates, users, auths, calls, profiles, user_subjects, group_messages, pool_max>>

\* INSERT INTO group_members (group_id, user_id), committed at once; res.json({ ok })
NaiveInsert(j) ==
    /\ joins[j].pc = "insert"
    /\ group_members' = group_members
            (+) SetToBag({MemberRow(joins[j].groupId, joins[j].user, DefaultRole)})
    /\ joins' = [joins EXCEPT ![j].pc = "done", ![j].status = 200]
    /\ UNCHANGED <<groups, locks, creates, users, auths, calls, profiles, user_subjects, group_messages, pool_max>>

\* a query throws: catch answers 500 'Failed to join group'
NaiveQueryFails(j) ==
    /\ joins[j].pc \in {"select_group", "count", "exists", "insert"}
    /\ joins' = [joins EXCEPT ![j].pc = "done", ![j].status = 500,
                              ![j].error = "Failed to join group",
                              ![j].failed = joins[j].pc]
    /\ UNCHANGED <<groups, group_members, locks, creates, users, auths, calls, profiles, user_subjects, group_messages, pool_max>>

\* ------- POST /api/groups/:id/join that only looks for an existing membership
\* SELECT * FROM group_members WHERE group_id = $1 AND user_id = $2
CheckOnlyExists(j) ==
    /\ joins[j].pc = "exists"
    /\ IF SelectMember(group_members, joins[j].groupId, joins[j].user) > 0
         THEN joins' = [joins EXCEPT ![j].pc = "done", ![j].status = 400,
                                     ![j].error = "Already a member"]
         ELSE joins' = [joins EXCEPT ![j].pc = "insert"]
    /\ UNCHANGED <<groups, group_members, locks, creates, users, auths, calls, profiles, user_subjects, group_messages, pool_max>>

\* INSERT INTO group_members (group_id, user_id); res.json({ ok: true, ... })
CheckOnlyInsert(j) ==
    /\ joins[j].pc = "insert"
    /\ group_members' = group_members
            (+) SetToBag({MemberRow(joins[j].groupId, joins[j].user, DefaultRole)})
    /\ joins' = [joins EXCEPT ![j].pc = "done", ![j].status = 200]
    /\ UNCHANGED <<groups, locks, creates, users, auths, calls, profiles, user_subjects, group_messages, pool_max>>

\* a query throws (a storage error, or a constraint of the schema such as a foreign
\* key on group_id): catch answers 500 'Failed to join group'
CheckOnlyQueryFails(j) ==
    /\ joins[j].pc \in {"exists", "insert"}
    /\ joins' = [joins EXCEPT ![j].pc = "done", ![j].status = 500,
                              ![j].error = "Failed to join group",
                              ![j].failed = joins[j].pc]
    /\ UNCHANGED <<groups, group_members, locks, creates, users, auths, calls, profiles, user_subjects, group_messages, pool_max>>

\* --------------------------------------------------- POST /api/groups
\* INSERT INTO groups (...) VALUES (...) RETURNING id: its own autocommitted statement
CreateInsertGroup(c) ==
    /\ creates[c].pc = "insert_group"
    /\ groups' = Append(groups, [owner_id |-> creates[c].user,
                                 max_members |-> MaxMembersOrDefault(creates[c].max_members)])
    /\ creates' = [creates EXCEPT ![c].pc = "insert_owner", ![c].groupId = Len(groups) + 1]
    /\ UNCHANGED <<group_members, locks, joins, users, auths, calls, profiles, user_subjects, group_messages, pool_max>>

\* an owner INSERT that names no role
CreateInsertOwner_NoRole(c) ==
    /\ creates[c].pc = "insert_owner"
    /\ group_members' = group_members
                         (+) SetToBag({MemberRow(creates[c].groupId, creates[c].user, DefaultRole)})
    /\ creates' = [creates EXCEPT ![c].pc = "done", ![c].status = 201]
    /\ UNCHANGED <<groups, locks, joins, users, auths, calls, profiles, user_subjects, group_messages, pool_max>>

\* INSERT INTO group_members (group_id, user_id, role) VALUES ($1, $2, 'owner'); 201
CreateInsertOwner(c) ==
    /\ creates[c].pc = "insert_owner"
    /\ group_members' = group_members
                         (+) SetToBag({MemberRow(creates[c].groupId, creates[c].user, "owner")})
    /\ creates' = [creates EXCEPT ![c].pc = "done", ![c].status = 201]
    /\ UNCHANGED <<groups, locks, joins, users, auths, calls, profiles, user_subjects, group_messages, pool_max>>

\* either pool.query throws: catch, 500 'Failed to create group'
CreateFail(c) ==
    /\ creates[c].pc \in {"insert_group", "insert_owner"}
    /\ creates' = [creates EXCEPT ![c].pc = "done", ![c].status = 500]
    /\ UNCHANGED <<groups, group_members, locks, joins, users, auths, calls, profiles, user_subjects, group_messages, pool_max>>

\* ------------------------------------- POST /api/register, POST /api/login
\* bcrypt.hash(password, 10) and bcrypt.compare(password, hash)
Hash(p) == <<"bcrypt", p>>
Compare(p, h) == h = Hash(p)

UserRow(e, h) == [email |-> e, password_hash |-> h]

\* SELECT ... FROM users WHERE email = $1
SelectUser(e) == {r \in users : r.email = e}

\* the store's uniqueness of users.email: an INSERT of a stored email throws
UniqueViolation(e) == SelectUser(e) # {}

AuthReq(op, variant, e, p, n) ==
    [op |-> op, variant |-> variant, email |-> e, password |-> p, display_name |-> n,
     pc |-> "start", hash |-> <<>>, status |-> 0, error |-> ""]

\* if (!email || !password || !display_name) return 400
RegisterStart(a) ==
    /\ auths[a].op = "register" /\ auths[a].pc = "start"
    /\ IF auths[a].email = 0 \/ auths[a].password = 0 \/ auths[a].display_name = 0
         THEN auths' = [auths EXCEPT ![a].pc = "done", ![a].status = 400,
                                     ![a].error = "Missing required fields"]
         ELSE auths' = [auths EXCEPT ![a].pc = "select"]
    /\ UNCHANGED <<groups, group_members, locks, joins, creates, users, calls, profiles, user_subjects, group_messages, pool_max>>

\* SELECT id FROM users WHERE email = $1; 409 when a row is found
RegisterSelect(a) ==
    /\ auths[a].op = "register" /\ auths[a].pc = "select"
    /\ IF SelectUser(auths[a].email) # {}
         THEN auths' = [auths EXCEPT ![a].pc = "done", ![a].status = 409,
                                     ![a].error = "Email already in use"]
         ELSE auths' = [auths EXCEPT ![a].pc = "hash"]
    /\ UNCHANGED <<groups, group_members, locks, joins, creates, users, calls, profiles, user_subjects, group_messages, pool_max>>

\* const hash = await bcrypt.hash(password, 10)
RegisterHash(a) ==
    /\ auths[a].op = "register" /\ auths[a].pc = "hash"
    /\ auths' = [auths EXCEPT ![a].pc = "insert", ![a].hash = Hash(auths[a].password)]
    /\ UNCHANGED <<groups, group_members, locks, joins, creates, users, calls, profiles, user_subjects, group_messages, pool_max>>

\* INSERT INTO users (email, password_hash, display_name); res.status(201)
RegisterInsert(a) ==
    /\ auths[a].op = "register" /\ auths[a].pc = "insert"
    /\ ~ UniqueViolation(auths[a].email)
    /\ users' = users \cup {UserRow(auths[a].email, auths[a].hash)}
    /\ auths' = [auths EXCEPT ![a].pc = "done", ![a].status = 201]
    /\ UNCHANGED <<groups, group_members, locks, joins, creates, calls, profiles, user_subjects, group_messages, pool_max>>

\* the INSERT throws on the stored email: catch answers 500 'Internal server error'
RegisterInsertConflict(a) ==
    /\ auths[a].op = "register" /\ auths[a].pc = "insert"
    /\ UniqueViolation(auths[a].email)
    /\ auths' = [auths EXCEPT ![a].pc = "done", ![a].status = 500,
                              ![a].error = "Internal server error"]
    /\ UNCHANGED <<groups, group_members, locks, joins, creates, users, calls, profiles, user_subjects, group_messages, pool_max>>

\* the status of 'Invalid credentials': 401 in the first login handler, 400 in the
\* second
InvalidStatus(variant) == IF variant = 1 THEN 401 ELSE 400

\* first handler: if (!email || !password) return 400; the second has no such test
LoginStart(a) ==
    /\ auths[a].op = "login" /\ auths[a].pc = "start"
    /\ IF auths[a].variant = 1 /\ (auths[a].email = 0 \/ auths[a].password = 0)
         THEN auths' = [auths EXCEPT ![a].pc = "done", ![a].status = 400,
                                     ![a].error = "Email and password are required"]
         ELSE auths' = [auths EXCEPT ![a].pc = "select"]
    /\ UNCHANGED <<groups, group_members, locks, joins, creates, users, calls, profiles, user_subjects, group_messages, pool_max>>

\* SELECT ... FROM users WHERE email = $1; 'Invalid credentials' when no row
LoginSelect(a) ==
    /\ auths[a].op = "login" /\ auths[a].pc = "select"
    /\ IF SelectUser(auths[a].email) = {}
         THEN auths' = [auths EXCEPT ![a].pc = "done",
                                     ![a].status = InvalidStatus(auths[a].variant),
                                     ![a].error = "Invalid credentials"]
         ELSE \E user \in SelectUser(auths[a].email) :
                auths' = [auths EXCEPT ![a].pc = "compare", ![a].hash = user.password_hash]
    /\ UNCHANGED <<groups, group_members, locks, joins, creates, users, calls, profiles, user_subjects, group_messages, pool_max>>

\* bcrypt.compare(password, user.password_hash): it throws on a missing password
\* (catch: 500); 'Invalid credentials' on a mismatch; else the token, 200
LoginCompare(a) ==
    /\ auths[a].op = "login" /\ auths[a].pc = "compare"
    /\ IF auths[a].password = 0
         THEN auths' = [auths EXCEPT ![a].pc = "done", ![a].status = 500,
                                     ![a].error = "Login failed"]
         ELSE IF ~ Compare(auths[a].password, auths[a].hash)
                THEN auths' = [auths EXCEPT ![a].pc = "done",
                                            ![a].status = InvalidStatus(auths[a].variant),
                                            ![a].error = "Invalid credentials"]
                ELSE auths' = [auths EXCEPT ![a].pc = "done", ![a].status = 200]
    /\ UNCHANGED <<groups, group_members, locks, joins, creates, users, calls, profiles, user_subjects, group_messages, pool_max>>

\* ------------------------------------------------ tokens and authMiddleware
\* process.env.JWT_SECRET || 'dev_secret'
JWT_SECRET == "dev_secret"

\* jwt.sign({ id, ... }, JWT_SECRET, { expiresIn: '7d' }): the claims, the key that
\* signed them, and whether the seven days have passed when the token is presented
makeToken(u) == [id |-> u, secret |-> JWT_SECRET, expired |-> FALSE]

\* a verification that accepts any signature
Verify_AnySignature(token) == ~ token.expired

\* jwt.verify(token, JWT_SECRET) does not throw
Verify(token) == token.secret = JWT_SECRET /\ ~ token.expired

\* req.headers.authorization: absent, another scheme, or 'Bearer ' and a token
NoToken == [id |-> 0, secret |-> "", expired |-> FALSE]
NoHeader == [scheme |-> "none", token |-> NoToken]
BasicHeader == [scheme |-> "Basic", token |-> NoToken]
Bearer(token) == [scheme |-> "Bearer", token |-> token]

\* !authHeader || !authHeader.startsWith('Bearer ')
Malformed(h) == h.scheme # "Bearer"

\* values of a body field: omitted, the empty string, or a text; the first two are
\* falsy
Texts == {"a", "b"}
FieldVals == {"undefined", ""} \cup Texts
Falsy(v) == v \in {"undefined", ""}
Null == "null"

\* v || null, without the test
OrNull_Keep(v) == v

\* v || null
OrNull(v) == IF Falsy(v) THEN Null ELSE v

\* parseInt that reads a segment without a leading digit as 0
ParseInt_Zero(p) == CASE p = "1" -> 1 [] p = "2" -> 2 [] p = "1x" -> 1 [] OTHER -> 0

\* parseInt(req.params.id) of the URL segments "1", "2", "1x" and "x"; NaN is -1
NaN == -1
Segments == {"1", "2", "1x", "x"}
ParseInt(p) == CASE p = "1" -> 1 [] p = "2" -> 2 [] p = "1x" -> 1 [] OTHER -> NaN

NoBody ==
    [bio |-> "undefined", location |-> "undefined", availability |-> "undefined",
     message |-> "undefined", subject_id |-> 0, level |-> "undefined", max_members |-> 0,
     type |-> "undefined"]

Call(endpoint, header, id, body) ==
    [endpoint |-> endpoint, header |-> header, id |-> id, body |-> body,
     pc |-> "auth", user |-> 0, status |-> 0, error |-> "", result |-> <<>>]

\* authMiddleware: 401 unless the header is 'Bearer <token>' and the token verifies;
\* else req.user = the claims and next()
authMiddleware(c) ==
    /\ calls[c].pc = "auth"
    /\ IF Malformed(calls[c].header)
         THEN calls' = [calls EXCEPT ![c].pc = "done", ![c].status = 401,
                                     ![c].error = "No token provided or malformed header"]
         ELSE IF ~ Verify(calls[c].header.token)
                THEN calls' = [calls EXCEPT ![c].pc = "done", ![c].status = 401,
                                            ![c].error = "Invalid token"]
                ELSE calls' = [calls EXCEPT ![c].pc = "handler",
                                            ![c].user = calls[c].header.token.id]
    /\ UNCHANGED <<groups, group_members, locks, joins, creates, users, auths, profiles, user_subjects, group_messages, pool_max>>

\* ------------------------------------------------------- POST /api/profile
ProfileRow(body) ==
    [bio |-> OrNull(body.bio), location |-> OrNull(body.location),
     availability |-> OrNull(body.availability)]

\* an upsert that keeps the old column where the new value is null
UpsertProfile_Merge(table, u, row) ==
    [x \in DOMAIN table \cup {u} |->
        IF x # u THEN table[x]
        ELSE IF u \notin DOMAIN table THEN row
        ELSE [f \in DOMAIN row |-> IF row[f] = Null THEN table[u][f] ELSE row[f]]]

\* INSERT INTO profiles ... ON CONFLICT (user_id) DO UPDATE SET the three columns
UpsertProfile(table, u, row) ==
    [x \in DOMAIN table \cup {u} |-> IF x = u THEN row ELSE table[x]]

ProfileUpsert(c) ==
    /\ calls[c].endpoint = "profile" /\ calls[c].pc = "handler"
    /\ profiles' = UpsertProfile(profiles, calls[c].user, ProfileRow(calls[c].body))
    /\ calls' = [calls EXCEPT ![c].pc = "done", ![c].status = 200]
    /\ UNCHANGED <<groups, group_members, locks, joins, creates, users, auths, user_subjects, group_messages, pool_max>>

\* the query throws: 500 'Failed to update profile'
ProfileFails(c) ==
    /\ calls[c].endpoint = "profile" /\ calls[c].pc = "handler"
    /\ calls' = [calls EXCEPT ![c].pc = "done", ![c].status = 500,
                              ![c].error = "Failed to update profile"]
    /\ UNCHANGED <<groups, group_members, locks, joins, creates, users, auths, profiles, user_subjects, group_messages, pool_max>>

\* --------------------------------------------------- POST /api/user/subject
\* if (!subject_id || !level) 400; else the upsert on (user_id, subject_id)
SubjectUpsert(c) ==
    /\ calls[c].endpoint = "subject" /\ calls[c].pc = "handler"
    /\ IF calls[c].body.subject_id = 0 \/ Falsy(calls[c].body.level)
         THEN /\ calls' = [calls EXCEPT ![c].pc = "done", ![c].status = 400,
                                        ![c].error = "Missing fields"]
              /\ UNCHANGED user_subjects
         ELSE /\ user_subjects' =
                    [k \in DOMAIN user_subjects \cup {<<calls[c].user, calls[c].body.subject_id>>} |->
                        IF k = <<calls[c].user, calls[c].body.subject_id>>
                        THEN calls[c].body.level ELSE user_subjects[k]]
              /\ calls' = [calls EXCEPT ![c].pc = "done", ![c].status = 200]
    /\ UNCHANGED <<groups, group_members, locks, joins, creates, users, auths, profiles, group_messages, pool_max>>

\* ------------------------------------------- POST /api/groups/:id/messages
\* a test that lets the empty string through
EmptyMessage_OnlyOmitted(m) == m = "undefined"

\* !message
EmptyMessage(m) == Falsy(m)

MessageRow(g, u, m) == [group_id |-> g, user_id |-> u, message |-> m]

\* if (!message) 400 'Empty message'; INSERT INTO group_messages; a group id that is
\* NaN makes the INSERT throw: 500 'Failed to post message'
PostMessage(c) ==
    /\ calls[c].endpoint = "messages" /\ calls[c].pc = "handler"
    /\ IF EmptyMessage(calls[c].body.message)
         THEN /\ calls' = [calls EXCEPT ![c].pc = "done", ![c].status = 400,
                                        ![c].error = "Empty message"]
              /\ UNCHANGED group_messages
         ELSE IF ParseInt(calls[c].id) = NaN
                THEN /\ calls' = [calls EXCEPT ![c].pc = "done", ![c].status = 500,
                                               ![c].error = "Failed to post message"]
                     /\ UNCHANGED group_messages
                ELSE /\ group_messages' =
                           Append(group_messages,
                                  MessageRow(ParseInt(calls[c].id), calls[c].user,
                                             calls[c].body.message))
                     /\ calls' = [calls EXCEPT ![c].pc = "done", ![c].status = 200]
    /\ UNCHANGED <<groups, group_members, locks, joins, creates, users, auths, profiles, user_subjects, pool_max>>

\* ------------------------------------------------------- GET /api/match
\* table subjects: reference data
Subjects == 1..NumSubjects

\* a level filter that leaves the mixed groups out
LevelMatches_Exact(level, g) == g.level = level

\* AND (g.level = $2 OR g.level = 'mixed')
LevelMatches(level, g) == g.level = level \/ g.level = "mixed"

\* FROM groups g JOIN subjects s ON s.id = g.subject_id JOIN users u ON u.id =
\* g.owner_id WHERE g.subject_id = $1 and, when level is given, the level test;
\* each row with its id
GroupsWhere(subject_id, level) ==
    {[id |-> g, row |-> groups[g]] : g \in
        {g \in GroupIds :
            /\ groups[g].subject_id \in Subjects
            /\ groups[g].owner_id \in Users
            /\ groups[g].subject_id = subject_id
            /\ Falsy(level) \/ LevelMatches(level, groups[g])}}

\* ORDER BY g.created_at DESC
RECURSIVE OrderByCreatedDesc(_)
OrderByCreatedDesc(S) ==
    IF S = {} THEN <<>>
    ELSE LET first == CHOOSE r \in S : \A q \in S : q.row.created_at <= r.row.created_at
         IN  <<first>> \o OrderByCreatedDesc(S \ {first})

\* LIMIT n
Limit(seq, n) == SubSeq(seq, 1, IF Len(seq) < n THEN Len(seq) ELSE n)

\* the rows of the group query, each with the count of its membership rows
MatchGroups(subject_id, level) ==
    LET rows == Limit(OrderByCreatedDesc(GroupsWhere(subject_id, level)), MatchLimit)
    IN  [i \in 1..Len(rows) |->
            [id |-> rows[i].id, level |-> rows[i].row.level,
             subject_id |-> rows[i].row.subject_id, created_at |-> rows[i].row.created_at,
             member_count |-> CountMembers(group_members, rows[i].id)]]

\* FROM user_subjects us ... WHERE us.subject_id = $1 and, when level is given,
\* us.level = $2
UsersWhere(subject_id, level) ==
    {k \in DOMAIN user_subjects :
        k[2] = subject_id /\ (Falsy(level) \/ user_subjects[k] = level)}

\* type === 'group': the group query; otherwise the user query, whose LIMIT 50 keeps
\* any 50 rows
Match(c) ==
    /\ calls[c].endpoint = "match" /\ calls[c].pc = "handler"
    /\ IF calls[c].body.type = "group"
         THEN calls' = [calls EXCEPT ![c].pc = "done", ![c].status = 200,
                          ![c].result = MatchGroups(calls[c].body.subject_id, calls[c].body.level)]
         ELSE LET found == UsersWhere(calls[c].body.subject_id, calls[c].body.level)
              IN  \E kept \in SUBSET found :
                    /\ Cardinality(kept) = IF Cardinality(found) < MatchLimit
                                            THEN Cardinality(found) ELSE MatchLimit
                    /\ calls' = [calls EXCEPT ![c].pc = "done", ![c].status = 200,
                                              ![c].result = kept]
    /\ UNCHANGED <<groups, group_members, locks, joins, creates, users, auths,
                   profiles, user_subjects, group_messages, pool_max>>

\* the query throws: 500 'Failed to fetch matches'
MatchFails(c) ==
    /\ calls[c].endpoint = "match" /\ calls[c].pc = "handler"
    /\ calls' = [calls EXCEPT ![c].pc = "done", ![c].status = 500,
                              ![c].error = "Failed to fetch matches"]
    /\ UNCHANGED <<groups, group_members, locks, joins, creates, users, auths,
                   profiles, user_subjects, group_messages, pool_max>>

\* ------------------- the group routes entered from authMiddleware's next()
\* POST /api/groups/:id/join up to its first await: 400 'Invalid group ID' when
\* isNaN(groupId), else the request waits for pool.connect()
CallJoin(c) ==
    /\ calls[c].endpoint = "join" /\ calls[c].pc = "handler"
    /\ IF ParseInt(calls[c].id) = NaN
         THEN /\ calls' = [calls EXCEPT ![c].pc = "done", ![c].status = 400,
                                        ![c].error = "Invalid group ID"]
              /\ UNCHANGED joins
         ELSE /\ joins' = Append(joins, JoinReq(calls[c].user, ParseInt(calls[c].id)))
              /\ calls' = [calls EXCEPT ![c].pc = "routed"]
    /\ UNCHANGED <<groups, group_members, locks, creates, users, auths,
                   profiles, user_subjects, group_messages, pool_max>>

\* POST /api/groups up to its first await
CallGroups(c) ==
    /\ calls[c].endpoint = "groups" /\ calls[c].pc = "handler"
    /\ creates' = Append(creates, CreateReq(calls[c].user, calls[c].body.max_members))
    /\ calls' = [calls EXCEPT ![c].pc = "routed"]
    /\ UNCHANGED <<groups, group_members, locks, joins, users, auths,
                   profiles, user_subjects, group_messages, pool_max>>

\* ------------------------------------------------------ the pool's clients
\* a join holds its client from pool.connect() to client.release()
ClientsInUse ==
    Cardinality({j \in JoinIds : joins[j].pc \notin {"connect", "done", "thrown"}})

PoolHasIdle == ClientsInUse < pool_max

\* pool.connect() resolves when a client is idle
PoolConnect(j) == PoolHasIdle /\ JoinConnect(j)

\* pool.query takes an idle client for its one statement and gives it back
PoolInsertGroup(c) == PoolHasIdle /\ CreateInsertGroup(c)
PoolInsertOwner(c) == PoolHasIdle /\ CreateInsertOwner(c)

\* --------------------------------------------------------- specifications
\* Request ids are labels only: the requests are listed in one order, by user and
\* then by group id (joins) or requested max_members (creates).
JoinsListed(js) ==
    \A i \in DOMAIN js : \A k \in DOMAIN js :
        i < k => \/ js[i].user < js[k].user
                 \/ js[i].user = js[k].user /\ js[i].groupId <= js[k].groupId

CreatesListed(cs) ==
    \A i \in DOMAIN cs : \A k \in DOMAIN cs :
        i < k => \/ cs[i].user < cs[k].user
                 \/ cs[i].user = cs[k].user /\ cs[i].max_members <= cs[k].max_members

\* The whole API surface modelled: an empty store, createGroup and join requests.
Init ==
    /\ groups = <<>>
    /\ group_members = EmptyBag
    /\ locks = {}
    /\ joins \in [1..NumRaceJoins -> {JoinReq(u, g) : u \in Users, g \in 1..NumCreates}]
    /\ creates \in [1..NumCreates -> {CreateReq(u, m) : u \in Users, m \in ReqMaxMembers}]
    /\ JoinsListed(joins)
    /\ CreatesListed(creates)
    /\ users = {}
    /\ auths = <<>>
    /\ NoCalls
    /\ pool_max = DefaultPoolMax

NextJoin ==
    \/ \E j \in JoinIds : JoinConnect(j)
    \/ \E j \in JoinIds : JoinBegin(j)
    \/ \E j \in JoinIds : JoinSelectGroup(j)
    \/ \E j \in JoinIds : JoinCount(j)
    \/ \E j \in JoinIds : JoinExists(j)
    \/ \E j \in JoinIds : JoinInsert(j)
    \/ \E j \in JoinIds : JoinCommit(j)
    \/ \E j \in JoinIds : JoinRollback(j)

NextCreate ==
    \/ \E c \in CreateIds : CreateInsertGroup(c)
    \/ \E c \in CreateIds : CreateInsertOwner(c)
    \/ \E c \in CreateIds : CreateFail(c)

Next == NextJoin \/ NextCreate

Spec == Init /\ [][Next]_vars

\* Joins alone, on a store where group 1 has been created (its owner is its one
\* member) and no group 2 exists.
InitJoin ==
    /\ \E m \in 1..MaxCap : groups = <<[owner_id |-> 1, max_members |-> m]>>
    /\ group_members = SetToBag({MemberRow(1, 1, "owner")})
    /\ locks = {}
    /\ joins \in [1..NumJoins -> {JoinReq(u, g) : u \in Users, g \in 1..2}]
    /\ JoinsListed(joins)
    /\ creates = <<>>
    /\ users = {}
    /\ auths = <<>>
    /\ NoCalls
    /\ pool_max = DefaultPoolMax

SpecJoin == InitJoin /\ [][NextJoin]_vars

\* N+1 users, none a member, join a group with N free seats.
SeatCases == {0, 1, 5}

InitSeats ==
    \E n \in SeatCases :
        /\ groups = <<[owner_id |-> 1, max_members |-> n + 1]>>
        /\ group_members = SetToBag({MemberRow(1, 1, "owner")})
        /\ locks = {}
        /\ joins = [j \in 1..(n + 1) |-> JoinReq(j + 1, 1)]
        /\ creates = <<>>
        /\ users = {}
        /\ auths = <<>>
        /\ NoCalls
        /\ pool_max = DefaultPoolMax

SpecSeats == InitSeats /\ [][NextJoin]_vars

\* Joins on a store where groups 1 and 2 have both been created.
InitTwo ==
    /\ \E m \in 1..MaxCap :
          groups = <<[owner_id |-> 1, max_members |-> m], [owner_id |-> 1, max_members |-> m]>>
    /\ group_members = SetToBag({MemberRow(1, 1, "owner"), MemberRow(2, 1, "owner")})
    /\ locks = {}
    /\ joins \in [1..NumJoins -> {JoinReq(u, g) : u \in Users, g \in 1..2}]
    /\ JoinsListed(joins)
    /\ creates = <<>>
    /\ users = {}
    /\ auths = <<>>
    /\ NoCalls
    /\ pool_max = DefaultPoolMax

SpecTwo == InitTwo /\ [][NextJoin]_vars

\* Joins on a created group whose statements may throw.
InitFault ==
    /\ \E m \in 1..MaxCap : groups = <<[owner_id |-> 1, max_members |-> m]>>
    /\ group_members = SetToBag({MemberRow(1, 1, "owner")})
    /\ locks = {}
    /\ joins \in [1..NumFaultJoins -> {JoinReq(u, g) : u \in Users, g \in 1..2}]
    /\ JoinsListed(joins)
    /\ creates = <<>>
    /\ users = {}
    /\ auths = <<>>
    /\ NoCalls
    /\ pool_max = DefaultPoolMax

NextFault ==
    \/ NextJoin
    \/ \E j \in JoinIds : JoinQueryFails(j)
    \/ \E j \in JoinIds : JoinCatch(j)
    \/ \E j \in JoinIds : JoinCatchFails(j)

SpecFault == InitFault /\ [][NextFault]_vars

\* Joins on a created group when the pool may fail to hand out a client.
NextConnect ==
    \/ NextJoin
    \/ \E j \in JoinIds : JoinConnectFails(j)

SpecConnect == InitFault /\ [][NextConnect]_vars

\* One user repeating one join: every request is for the same (user, group); the
\* group starts with its owner and any members that fit, and nothing else writes.
InitRetry ==
    /\ \E m \in 1..MaxCap, S \in SUBSET (Users \ {1}) :
          /\ 1 + Cardinality(S) <= m
          /\ groups = <<[owner_id |-> 1, max_members |-> m]>>
          /\ group_members =
                SetToBag({MemberRow(1, 1, "owner")} \cup {MemberRow(1, u, DefaultRole) : u \in S})
    /\ locks = {}
    /\ \E u \in Users, g \in 1..2 : joins = [i \in 1..NumJoins |-> JoinReq(u, g)]
    /\ creates = <<>>
    /\ users = {}
    /\ auths = <<>>
    /\ NoCalls
    /\ pool_max = DefaultPoolMax

SpecRetry == InitRetry /\ [][NextJoin]_vars

\* Joins through pool.query on a created group: user 1 owns it, the rivals are the
\* other users, some of them members already.
Rivals == 2..(NumRivals + 1)

InitPool(pc) ==
    /\ \E m \in 1..MaxCap, S \in SUBSET Rivals :
          /\ 1 + Cardinality(S) <= m
          /\ groups = <<[owner_id |-> 1, max_members |-> m]>>
          /\ group_members =
                SetToBag({MemberRow(1, 1, "owner")} \cup {MemberRow(1, u, DefaultRole) : u \in S})
    /\ locks = {}
    /\ joins \in [1..NumRaceJoins -> {PoolReq(u, g, pc) : u \in Rivals, g \in 1..2}]
    /\ JoinsListed(joins)
    /\ creates = <<>>
    /\ users = {}
    /\ auths = <<>>
    /\ NoCalls
    /\ pool_max = DefaultPoolMax

InitNaive == InitPool("select_group")

NextNaive ==
    \/ \E j \in JoinIds : NaiveSelectGroup(j)
    \/ \E j \in JoinIds : NaiveCount(j)
    \/ \E j \in JoinIds : NaiveExists(j)
    \/ \E j \in JoinIds : NaiveInsert(j)
    \/ \E j \in JoinIds : NaiveQueryFails(j)

SpecNaive == InitNaive /\ [][NextNaive]_vars

InitCheckOnly == InitPool("exists")

NextCheckOnly ==
    \/ \E j \in JoinIds : CheckOnlyExists(j)
    \/ \E j \in JoinIds : CheckOnlyInsert(j)
    \/ \E j \in JoinIds : CheckOnlyQueryFails(j)

SpecCheckOnly == InitCheckOnly /\ [][NextCheckOnly]_vars

\* Requests to the credential endpoints, listed in one order.
AuthKey(r) == ((r.variant * 10 + r.email) * 10 + r.password) * 10 + r.display_name

AuthsListed(rs) ==
    \A i \in DOMAIN rs : \A k \in DOMAIN rs : i < k => AuthKey(rs[i]) <= AuthKey(rs[k])

NoGroups ==
    /\ groups = <<>>
    /\ group_members = EmptyBag
    /\ locks = {}
    /\ joins = <<>>
    /\ creates = <<>>

\* Register requests on a store that holds no user or the user of email 1.
InitRegister ==
    /\ NoGroups
    /\ NoCalls
    /\ pool_max = DefaultPoolMax
    /\ users \in {{}, {UserRow(1, Hash(1))}}
    /\ auths \in [1..NumAuths -> {AuthReq("register", 1, e, p, n) :
                                    e \in ReqEmails, p \in ReqPasswords, n \in ReqNames}]
    /\ AuthsListed(auths)

NextRegister ==
    \/ \E a \in AuthIds : RegisterStart(a)
    \/ \E a \in AuthIds : RegisterSelect(a)
    \/ \E a \in AuthIds : RegisterHash(a)
    \/ \E a \in AuthIds : RegisterInsert(a)
    \/ \E a \in AuthIds : RegisterInsertConflict(a)

SpecRegister == InitRegister /\ [][NextRegister]_vars

\* Login requests to either login handler on a store of registered users, each with
\* password 1.
InitLogin ==
    /\ NoGroups
    /\ NoCalls
    /\ pool_max = DefaultPoolMax
    /\ users \in SUBSET {UserRow(e, Hash(1)) : e \in Emails}
    /\ auths \in [1..NumAuths -> {AuthReq("login", v, e, p, 0) :
                                    v \in 1..2, e \in ReqEmails, p \in ReqPasswords}]
    /\ AuthsListed(auths)

NextLogin ==
    \/ \E a \in AuthIds : LoginStart(a)
    \/ \E a \in AuthIds : LoginSelect(a)
    \/ \E a \in AuthIds : LoginCompare(a)

SpecLogin == InitLogin /\ [][NextLogin]_vars

\* Requests with every kind of Authorization header to the five mutating routes
\* behind authMiddleware, on a store with one created group.
Headers ==
    {NoHeader, BasicHeader}
        \cup {Bearer(makeToken(u)) : u \in Users}
        \cup {Bearer([makeToken(u) EXCEPT !.secret = "forged"]) : u \in Users}
        \cup {Bearer([makeToken(u) EXCEPT !.expired = TRUE]) : u \in Users}

RouteCalls ==
    UNION {
        {Call("profile", h, "", [NoBody EXCEPT !.bio = "a"]),
         Call("subject", h, "", [NoBody EXCEPT !.subject_id = 1, !.level = "a"]),
         Call("messages", h, "1", [NoBody EXCEPT !.message = "a"]),
         Call("join", h, "1", NoBody),
         Call("join", h, "x", NoBody),
         Call("groups", h, "", NoBody)} : h \in Headers}

InitRoutes ==
    /\ groups = <<[owner_id |-> 1, max_members |-> MaxCap]>>
    /\ group_members = SetToBag({MemberRow(1, 1, "owner")})
    /\ locks = {}
    /\ joins = <<>>
    /\ creates = <<>>
    /\ users = {}
    /\ auths = <<>>
    /\ calls \in [1..NumCalls -> RouteCalls]
    /\ profiles = <<>>
    /\ user_subjects = <<>>
    /\ group_messages = <<>>
    /\ pool_max = DefaultPoolMax

NextRoutes ==
    \/ \E c \in CallIds : authMiddleware(c)
    \/ \E c \in CallIds : ProfileUpsert(c)
    \/ \E c \in CallIds : ProfileFails(c)
    \/ \E c \in CallIds : SubjectUpsert(c)
    \/ \E c \in CallIds : PostMessage(c)
    \/ \E c \in CallIds : CallJoin(c)
    \/ \E c \in CallIds : CallGroups(c)
    \/ NextJoin
    \/ NextCreate

SpecRoutes == InitRoutes /\ [][NextRoutes]_vars

\* Profile requests with good tokens and every combination of the three fields.
ProfileCalls ==
    {Call("profile", Bearer(makeToken(u)), "",
          [NoBody EXCEPT !.bio = b, !.location = l, !.availability = a]) :
        u \in Users, b \in FieldVals, l \in FieldVals, a \in FieldVals}

InitProfile ==
    /\ NoGroups
    /\ users = {}
    /\ auths = <<>>
    /\ calls \in [1..NumCalls -> ProfileCalls]
    /\ profiles = <<>>
    /\ user_subjects = <<>>
    /\ group_messages = <<>>
    /\ pool_max = DefaultPoolMax

NextProfile ==
    \/ \E c \in CallIds : authMiddleware(c)
    \/ \E c \in CallIds : ProfileUpsert(c)
    \/ \E c \in CallIds : ProfileFails(c)

SpecProfile == InitProfile /\ [][NextProfile]_vars

\* Message posts with good tokens to a store with one created group, whose only
\* member is its owner, user 1; the log is empty or holds one message.
MessageCalls ==
    {Call("messages", Bearer(makeToken(u)), p, [NoBody EXCEPT !.message = m]) :
        u \in Users, p \in Segments, m \in FieldVals}

InitMessages ==
    /\ groups = <<[owner_id |-> 1, max_members |-> MaxCap]>>
    /\ group_members = SetToBag({MemberRow(1, 1, "owner")})
    /\ locks = {}
    /\ joins = <<>>
    /\ creates = <<>>
    /\ users = {}
    /\ auths = <<>>
    /\ calls \in [1..NumCalls -> MessageCalls]
    /\ profiles = <<>>
    /\ user_subjects = <<>>
    /\ group_messages \in {<<>>, <<MessageRow(1, 1, "a")>>}
    /\ pool_max = DefaultPoolMax

NextMessages ==
    \/ \E c \in CallIds : authMiddleware(c)
    \/ \E c \in CallIds : PostMessage(c)

SpecMessages == InitMessages /\ [][NextMessages]_vars

\* Match requests on a store of 3 or 52 groups. Group g was created by user 1 for
\* subject 1 (or, when the table is spread, for subjects 1 and 2 in turn); the levels
\* follow a cycle, or (shift 4) are 'advanced' and 'mixed' in turn after one
\* 'beginner'; created_at is a rotation of the ids; user 2 has joined the groups of
\* even id when joined is TRUE.
Levels == <<"beginner", "intermediate", "advanced", "mixed">>
TableSizes == {3, MatchLimit + 2}

LevelOf(g, shift) ==
    IF shift < 4 THEN Levels[1 + ((g + shift) % 4)]
    ELSE IF g = 1 THEN "beginner" ELSE IF g % 2 = 0 THEN "advanced" ELSE "mixed"

GroupsTable(n, spread, shift, turn) ==
    [g \in 1..n |->
        [owner_id |-> 1, max_members |-> DefaultMaxMembers,
         subject_id |-> IF spread = 0 THEN 1 ELSE 1 + ((g \div 2) % 2),
         level |-> LevelOf(g, shift),
         created_at |-> 1 + ((g + turn) % n)]]

MatchCalls ==
    {Call("match", Bearer(makeToken(u)), "",
          [NoBody EXCEPT !.subject_id = sub, !.level = l, !.type = t]) :
        u \in Users, sub \in Subjects, t \in {"group", "user"},
        l \in {"undefined", "", "beginner", "advanced", "mixed"}}

InitMatch ==
    /\ \E n \in TableSizes, spread \in 0..1, shift \in 0..4, turn \in 0..1 :
          groups = GroupsTable(n, spread, shift, turn)
    /\ \E joined \in BOOLEAN :
          group_members =
              SetToBag({MemberRow(g, 1, "owner") : g \in GroupIds}
                       \cup {MemberRow(g, 2, DefaultRole) : g \in {x \in GroupIds : joined /\ x % 2 = 0}})
    /\ locks = {}
    /\ joins = <<>>
    /\ creates = <<>>
    /\ users = {}
    /\ auths = <<>>
    /\ calls \in [1..NumMatchCalls -> MatchCalls]
    /\ profiles = <<>>
    /\ user_subjects \in {<<>>, [k \in {<<1, 1>>, <<2, 1>>} |-> IF k[1] = 1 THEN "advanced" ELSE "beginner"]}
    /\ group_messages = <<>>
    /\ pool_max = DefaultPoolMax

NextMatch ==
    \/ \E c \in CallIds : authMiddleware(c)
    \/ \E c \in CallIds : Match(c)
    \/ \E c \in CallIds : MatchFails(c)

SpecMatch == InitMatch /\ [][NextMatch]_vars

\* createGroup requests with every kind of body on an empty store: max_members
\* omitted (0), negative or positive; title and subject_id present (1) or missing (0).
AnyMaxMembers == -1..MaxCap

InitCreate ==
    /\ groups = <<>>
    /\ group_members = EmptyBag
    /\ locks = {}
    /\ joins = <<>>
    /\ creates \in [1..NumCreates ->
                      {[CreateReq(u, m) EXCEPT !.title = t, !.subject_id = sub] :
                          u \in Users, m \in AnyMaxMembers, t \in 0..1, sub \in 0..1}]
    /\ users = {}
    /\ auths = <<>>
    /\ NoCalls
    /\ pool_max = DefaultPoolMax

SpecCreate == InitCreate /\ [][NextCreate]_vars

\* Joins and createGroup requests sharing a pool of 1..MaxPool clients, on a store
\* with one created group; no statement throws.
InitClients ==
    /\ \E m \in 1..MaxCap : groups = <<[owner_id |-> 1, max_members |-> m]>>
    /\ group_members = SetToBag({MemberRow(1, 1, "owner")})
    /\ locks = {}
    /\ joins \in [1..NumJoins -> {JoinReq(u, g) : u \in Users, g \in 1..2}]
    /\ JoinsListed(joins)
    /\ creates \in [1..NumPoolCreates -> {CreateReq(u, m) : u \in Users, m \in ReqMaxMembers}]
    /\ users = {}
    /\ auths = <<>>
    /\ NoCalls
    /\ pool_max \in 1..MaxPool

NextClients ==
    \/ \E j \in JoinIds : PoolConnect(j)
    \/ \E j \in JoinIds : JoinBegin(j)
    \/ \E j \in JoinIds : JoinSelectGroup(j)
    \/ \E j \in JoinIds : JoinCount(j)
    \/ \E j \in JoinIds : JoinExists(j)
    \/ \E j \in JoinIds : JoinInsert(j)
    \/ \E j \in JoinIds : JoinCommit(j)
    \/ \E j \in JoinIds : JoinRollback(j)
    \/ \E c \in CreateIds : PoolInsertGroup(c)
    \/ \E c \in CreateIds : PoolInsertOwner(c)

SpecClients == InitClients /\ [][NextClients]_vars

\* the same with fair scheduling: a step that can be taken is taken in the end
FairClients == SpecClients /\ WF_vars(NextClients)

\* ----------------------------------------------------------------- claims
Done(j) == joins[j].status # 0
Admitted(j) == joins[j].status = 200
RejectedAs(j, e) == joins[j].status = 400 /\ joins[j].error = e

\* the committed membership rows of group g, and those of user u among them
RowsOf(g) ==
    LET hit == {r \in DOMAIN group_members : r.group_id = g}
    IN  BagCardinality([r \in hit |-> group_members[r]])

RowsOfUser(g, u) ==
    LET hit == {r \in DOMAIN group_members : r.group_id = g /\ r.user_id = u}
    IN  BagCardinality([r \in hit |-> group_members[r]])

OwnerRows(g) == RowsOfUser(g, groups[g].owner_id)

\* C1: with the transactional join handler, a fully created group (its owner's
\* row is in) never has more membership rows than max_members, in any state of any
\* interleaving of concurrent joins.
C1_JoinKeepsCapacity ==
    \A g \in GroupIds :
        OwnerRows(g) > 0 => RowsOf(g) <= groups[g].max_members

\* C1 witness: a join holds the lock with the last seat's row written and not yet
\* committed while another join on the same group waits for the lock.
C1_Witness ==
    \E j1, j2 \in JoinIds :
        /\ j1 # j2
        /\ joins[j1].groupId = joins[j2].groupId
        /\ joins[j1].pc = "commit"
        /\ joins[j2].pc = "select_group"
        /\ joins[j2].txn = "open"
        /\ RowsOf(joins[j1].groupId) + BagCardinality(joins[j1].pending)
             = groups[joins[j1].groupId].max_members

\* C2: in every state of any interleaving of createGroup and join requests, every
\* group has at most max_members membership rows.
C2_CoreInvariant ==
    ~ \E g \in GroupIds : RowsOf(g) > groups[g].max_members

\* C3: once the N+1 joins on a group with N free seats have all answered, exactly N
\* were admitted, exactly one was rejected with 'Group is full', and the group has
\* exactly max_members rows (N in {0, 1, 5}).
C3_SeatsFilled ==
    LET n == Cardinality(JoinIds) - 1
    IN  (\A j \in JoinIds : Done(j)) =>
            /\ Cardinality({j \in JoinIds : Admitted(j)}) = n
            /\ Cardinality({j \in JoinIds : RejectedAs(j, "Group is full")}) = 1
            /\ RowsOf(1) = groups[1].max_members

\* C3 witness: the six joins on five free seats have all answered.
C3_Witness ==
    /\ Cardinality(JoinIds) = 6
    /\ \A j \in JoinIds : Done(j)
    /\ Cardinality({j \in JoinIds : Admitted(j)}) = 5

\* the join handler run alone, start to end, on the committed tables
SerialJoin(gs, gm, u, g) ==
    IF g \notin 1..Len(gs)
    THEN [status |-> 404, error |-> "Group not found", group_members |-> gm]
    ELSE IF CountMembers(gm, g) >= gs[g].max_members
    THEN [status |-> 400, error |-> "Group is full", group_members |-> gm]
    ELSE IF SelectMember(gm, g, u) > 0
    THEN [status |-> 400, error |-> "Already a member", group_members |-> gm]
    ELSE [status |-> 200, error |-> "",
          group_members |-> gm (+) SetToBag({MemberRow(g, u, DefaultRole)})]

\* C4: concurrent joins are equivalent to a serial run in lock order: a group's lock
\* has one holder at a time, and the step in which a join answers gives the answer and
\* the membership table that the whole handler, run alone at that moment on the
\* committed tables, gives.
C4_Serializable ==
    [][ /\ \A l1, l2 \in locks' : l1[1] = l2[1] => l1 = l2
        /\ \A j \in JoinIds :
              (~ Done(j) /\ joins'[j].status # 0) =>
                  LET r == SerialJoin(groups, group_members, joins[j].user, joins[j].groupId)
                  IN  /\ joins'[j].status = r.status
                      /\ joins'[j].error = r.error
                      /\ group_members' = r.group_members ]_vars

\* C4 witness: one join has answered, a second is inside its transaction holding the
\* lock, a third waits for that lock.
C4_Witness ==
    \E j1, j2, j3 \in JoinIds :
        /\ Done(j1)
        /\ joins[j2].pc = "exists"
        /\ joins[j3].pc = "select_group"
        /\ joins[j3].groupId = joins[j2].groupId
        /\ joins[j1].groupId = joins[j2].groupId
        /\ ~ LockFree(joins[j3].groupId, j3)

\* C5: there is at most one membership row per (group_id, user_id) pair, for any
\* interleaving of joins and of createGroup's owner insert.
C5_OneRowPerPair ==
    \A g \in GroupIds : \A u \in Users : RowsOfUser(g, u) <= 1

\* C6: when a user's join on a group was admitted, every other answered join of
\* that user on that group was rejected with 'Already a member'.
C6_AlreadyMemberThereafter ==
    \A j1, j2 \in JoinIds :
        ( /\ j1 # j2
          /\ joins[j1].user = joins[j2].user
          /\ joins[j1].groupId = joins[j2].groupId
          /\ Admitted(j1)
          /\ Done(j2) ) => RejectedAs(j2, "Already a member")

\* C7: no join reads a member count of zero for a group row it found while the
\* createGroup request of that group is still in progress.
C7_NeverSeenEmpty ==
    \A j \in JoinIds : \A c \in CreateIds :
        ~ ( /\ joins[j].pc = "exists"
            /\ joins[j].memberCount = 0
            /\ creates[c].pc = "insert_owner"
            /\ creates[c].groupId = joins[j].groupId )

\* C8: after createGroup has answered 500, the group row of that request is not in
\* the store.
C8_CreateAllOrNothing ==
    \A c \in CreateIds : creates[c].status = 500 => creates[c].groupId \notin GroupIds

\* C9: the step in which a join answers 404 or 400 leaves groups and group_members
\* as they were, rolls back a transaction that wrote nothing and releases its lock;
\* 404 is 'Group not found'; and no step of a join other than its COMMIT changes
\* either table.
C9_RejectNoEffect ==
    [][ \A j \in JoinIds :
          /\ (joins'[j] # joins[j] /\ joins[j].pc # "commit")
                => (groups' = groups /\ group_members' = group_members)
          /\ (~ Done(j) /\ joins'[j].status \in {400, 404}) =>
                /\ joins[j].pending = EmptyBag
                /\ joins'[j].txn = "none"
                /\ \A l \in locks' : l[2] # j
                /\ joins'[j].status = 404 <=> joins[j].groupId \notin GroupIds
                /\ joins'[j].status = 404 <=> joins'[j].error = "Group not found"
                /\ joins'[j].error \in {"Group not found", "Group is full", "Already a member"}
      ]_vars

\* C9 witness: one join was rejected as already a member and another as full.
C9_Witness ==
    \E j1, j2 \in JoinIds :
        /\ RejectedAs(j1, "Already a member")
        /\ RejectedAs(j2, "Group is full")
        /\ joins[j1].txn = "none" /\ joins[j2].txn = "none"

\* C10: a group with max_members = 1 whose one member is its owner keeps exactly
\* that one row, and every answered join on it by another user was rejected with
\* 'Group is full'.
C10_SingleSeat ==
    \A g \in GroupIds :
        groups[g].max_members = 1 =>
            /\ RowsOf(g) = 1
            /\ OwnerRows(g) = 1
            /\ \A j \in JoinIds :
                  (joins[j].groupId = g /\ joins[j].user # groups[g].owner_id /\ Done(j))
                      => RejectedAs(j, "Group is full")

\* C10 witness: another user's join on the one-seat group has been answered.
C10_Witness ==
    \E j \in JoinIds :
        /\ joins[j].groupId = 1
        /\ groups[1].max_members = 1
        /\ joins[j].user # groups[1].owner_id
        /\ joins[j].status = 400

\* some join other than j holds the row lock of group g
HeldByOther(g, j) == \E l \in locks : l[1] = g /\ l[2] # j

\* the next statement of join j
JoinNextOf(j) ==
    \/ JoinConnect(j) \/ JoinBegin(j) \/ JoinSelectGroup(j) \/ JoinCount(j)
    \/ JoinExists(j) \/ JoinInsert(j) \/ JoinCommit(j) \/ JoinRollback(j)

\* C11: the lock of a join is on the one group row it joins: a join that has not
\* answered can always take its next step unless it is at its locked read and another
\* join holds the lock of that same group; locks held on other groups never block it.
C11_LockPerGroup ==
    \A j \in JoinIds :
        (~ Done(j) /\ ~ (joins[j].pc = "select_group" /\ HeldByOther(joins[j].groupId, j)))
            => ENABLED JoinNextOf(j)

\* C11 witness: two joins are inside their transactions at once, one holding the lock
\* of group 1 and the other the lock of group 2.
C11_Witness ==
    \E j1, j2 \in JoinIds :
        /\ <<1, j1>> \in locks /\ <<2, j2>> \in locks
        /\ joins[j1].pc = "commit"
        /\ joins[j2].pc = "commit"

\* the handler of join j has returned or thrown
Ended(j) == joins[j].pc \in {"done", "thrown"}

\* C12: a join one of whose statements inside the transaction threw has, once its
\* handler has ended, answered 500 'Failed to join group' with its transaction rolled
\* back: closed, nothing pending, no lock held.
C12_FailureRolledBack ==
    \A j \in JoinIds :
        (Ended(j) /\ joins[j].failed \in TryStatements) =>
            /\ joins[j].status = 500
            /\ joins[j].error = "Failed to join group"
            /\ joins[j].txn = "none"
            /\ joins[j].pending = EmptyBag
            /\ \A l \in locks : l[2] # j

\* C13: once the handler of a join that got a client has ended, the client has been
\* released exactly once, with no open transaction and no row lock.
C13_ClientReleasedClean ==
    \A j \in JoinIds :
        (Ended(j) /\ joins[j].failed # "connect") =>
            /\ joins[j].released = 1
            /\ joins[j].txn = "none"
            /\ ~ \E l \in locks : l[2] = j

\* C14: a join whose pool.connect() failed has been answered 500.
C14_ConnectFailureAnswered ==
    \A j \in JoinIds : joins[j].failed = "connect" => joins[j].status = 500

\* C15: a join whose handler has ended has sent one response, with one of the
\* statuses 200, 404, 400, 500.
C15_OneTerminalOutcome ==
    \A j \in JoinIds : Ended(j) => joins[j].status \in {200, 404, 400, 500}

\* a join answered 404 or 400
Rejected(j) == Done(j) /\ joins[j].status \in {400, 404}

\* C16: when a join has been rejected and the same user repeats it with nothing else
\* writing to the tables, the rejected request holds no row lock the repeat would
\* wait for, and the step in which the repeat answers gives the same status and the
\* same error and writes nothing: never an admission.
C16_SameRejection ==
    /\ [](\A j1 \in JoinIds : Rejected(j1) => \A l \in locks : l[2] # j1)
    /\ [][ \A j1, j2 \in JoinIds :
            (/\ Rejected(j1)
             /\ joins[j2].user = joins[j1].user /\ joins[j2].groupId = joins[j1].groupId
             /\ ~ Done(j2) /\ joins'[j2].pc = "done")
                => /\ joins'[j2].status = joins[j1].status
                   /\ joins'[j2].error = joins[j1].error
                   /\ group_members' = group_members
        ]_vars

\* C16 witness: a non-member was rejected with 'Group is full' and its repeat was
\* rejected with 'Group is full' too.
C16_Witness ==
    \E j1, j2 \in JoinIds :
        /\ j1 # j2
        /\ RejectedAs(j1, "Group is full") /\ RejectedAs(j2, "Group is full")
        /\ RowsOfUser(joins[j1].groupId, joins[j1].user) = 0
        /\ joins[j2].user = joins[j1].user

\* C17: with the handler that queries through the pool without a transaction, two
\* distinct users admitted to the same group never take more seats than were free:
\* the group's rows stay within max_members.
C17_NoDoubleAdmission ==
    \A j1, j2 \in JoinIds :
        (/\ joins[j1].user # joins[j2].user
         /\ joins[j1].groupId = joins[j2].groupId
         /\ joins[j1].groupId \in GroupIds
         /\ Admitted(j1) /\ Admitted(j2))
            => RowsOf(joins[j1].groupId) <= groups[joins[j1].groupId].max_members

\* C18: with the handler that only looks for an existing membership, an answered
\* join whose queries all succeeded is 404 'Group not found' when the group does
\* not exist, and is never an admission into a group that was full.
C18_StillChecksGroup ==
    \A j \in JoinIds :
        (Done(j) /\ joins[j].status # 500) =>
            /\ joins[j].groupId \notin GroupIds =>
                    (joins[j].status = 404 /\ joins[j].error = "Group not found")
            /\ (joins[j].groupId \in GroupIds /\ Admitted(j)) =>
                    RowsOf(joins[j].groupId) <= groups[joins[j].groupId].max_members

\* C19: no email has more than one user row, and every answered register request
\* with all three fields either created the row (201) or was answered 409.
C19_RegisterConflict ==
    /\ \A e \in Emails : Cardinality(SelectUser(e)) <= 1
    /\ \A a \in AuthIds :
          (/\ auths[a].op = "register" /\ auths[a].pc = "done"
           /\ auths[a].email # 0 /\ auths[a].password # 0 /\ auths[a].display_name # 0)
              => \/ auths[a].status = 201
                 \/ auths[a].status = 409 /\ auths[a].error = "Email already in use"

\* C20: an answered login with an email and a password, whose email is not stored
\* or whose password does not match the stored hash, got 401 'Invalid credentials'.
C20_LoginUniform ==
    \A a \in AuthIds :
        (/\ auths[a].op = "login" /\ auths[a].pc = "done"
         /\ auths[a].email # 0 /\ auths[a].password # 0
         /\ \A r \in SelectUser(auths[a].email) : ~ Compare(auths[a].password, r.password_hash))
            => (auths[a].status = 401 /\ auths[a].error = "Invalid credentials")

\* a header authMiddleware must turn away: absent, not 'Bearer ', or a token that
\* was signed with another key or has expired
BadHeader(h) ==
    \/ h.scheme # "Bearer"
    \/ h.token.secret # JWT_SECRET
    \/ h.token.expired

\* everything stored, and the requests the group routes have started
Stored ==
    <<groups, group_members, locks, joins, creates, users, profiles, user_subjects,
      group_messages>>

\* C21: the only step a request with a bad Authorization header ever takes is the
\* one in which authMiddleware answers it 401, and that step changes nothing stored
\* and starts no route handler.
C21_BadHeaderTurnedAway ==
    [][ \A c \in CallIds :
          (BadHeader(calls[c].header) /\ calls'[c] # calls[c]) =>
              /\ calls[c].pc = "auth"
              /\ calls'[c].pc = "done"
              /\ calls'[c].status = 401
              /\ Stored' = Stored
      ]_vars

\* C21 witness: a request with a forged token was answered 401 and a request with a
\* good token wrote a profile.
C21_Witness ==
    \E c1, c2 \in CallIds :
        /\ calls[c1].header.scheme = "Bearer" /\ calls[c1].header.token.secret # JWT_SECRET
        /\ calls[c1].status = 401
        /\ calls[c2].endpoint = "profile" /\ calls[c2].status = 200
        /\ calls[c2].user \in DOMAIN profiles

\* what a profile column holds after a call: as the claim was written (the value
\* given, null when omitted), and as the handler stores it (null for the empty string
\* too)
AsGiven(v) == IF v = "undefined" THEN Null ELSE v
AsStored(v) == IF v \in Texts THEN v ELSE Null

ProfileAnswered(c) ==
    calls[c].endpoint = "profile" /\ calls[c].pc = "handler" /\ calls'[c].status = 200

\* C22 as written: the step in which a profile call is answered 200 leaves the
\* user's row equal to the call's fields, each holding the value given, null when
\* omitted.
C22_LastWriteAsGiven ==
    [][ \A c \in CallIds :
          ProfileAnswered(c) =>
              profiles'[calls[c].user] =
                  [bio |-> AsGiven(calls[c].body.bio),
                   location |-> AsGiven(calls[c].body.location),
                   availability |-> AsGiven(calls[c].body.availability)]
      ]_vars

\* C22: the step in which a profile call is answered 200 leaves the user's row equal
\* to the call's fields alone, whatever the row held: a text is stored as given, an
\* omitted field and an empty string are stored as null; every other user's row is
\* as it was.
C22_LastWriteWins ==
    [][ \A c \in CallIds :
          ProfileAnswered(c) =>
              /\ profiles'[calls[c].user] =
                    [bio |-> AsStored(calls[c].body.bio),
                     location |-> AsStored(calls[c].body.location),
                     availability |-> AsStored(calls[c].body.availability)]
              /\ \A u \in DOMAIN profiles :
                    u # calls[c].user => profiles'[u] = profiles[u]
              /\ DOMAIN profiles' = DOMAIN profiles \cup {calls[c].user}
      ]_vars

\* C22 witness: a user's second call omitted bio after the first had set it, and
\* the row holds null for bio and the second call's location.
C22_Witness ==
    \E c1, c2 \in CallIds :
        /\ c1 # c2 /\ calls[c1].user = calls[c2].user
        /\ calls[c1].status = 200 /\ calls[c2].status = 200
        /\ calls[c1].body.bio \in Texts /\ calls[c2].body.bio = "undefined"
        /\ calls[c2].body.location \in Texts
        /\ calls[c2].body.location # calls[c1].body.location
        /\ profiles[calls[c2].user].bio = Null
        /\ profiles[calls[c2].user].location = calls[c2].body.location

\* the log keeps every earlier message in place
LogExtended ==
    /\ Len(group_messages') >= Len(group_messages)
    /\ SubSeq(group_messages', 1, Len(group_messages)) = group_messages

\* C23: the step in which a message post is answered gives 400 and leaves the log as
\* it was when the message is omitted or empty; when the message is a text and the
\* URL names group 1 or 2 it gives 200 and the log grows by exactly that message at
\* its end, member or not; and every step keeps the earlier messages unchanged.
C23_PostAppendsOne ==
    [][ /\ LogExtended
        /\ \A c \in CallIds :
              (calls[c].endpoint = "messages" /\ calls[c].pc = "handler"
                  /\ calls'[c] # calls[c]) =>
                  /\ calls[c].body.message \notin Texts =>
                        (calls'[c].status = 400 /\ group_messages' = group_messages)
                  /\ \A g \in 1..2 :
                        (calls[c].body.message \in Texts /\ calls[c].id = ToString(g)) =>
                            /\ calls'[c].status = 200
                            /\ group_messages' =
                                  group_messages \o
                                    <<[group_id |-> g, user_id |-> calls[c].user,
                                       message |-> calls[c].body.message]>>
      ]_vars

\* C23 witness: user 2, who is not a member of group 1, has a message in its log,
\* and a post with an empty message was answered 400.
C23_Witness ==
    /\ \E i \in 1..Len(group_messages) :
          /\ group_messages[i].group_id = 1 /\ group_messages[i].user_id = 2
          /\ RowsOfUser(1, 2) = 0
    /\ \E c \in CallIds : calls[c].status = 400 /\ calls[c].body.message = ""

\* the groups a group-mode match for (subject_id, level) has to return
Wanted(subject_id, level) ==
    {g \in GroupIds :
        /\ groups[g].subject_id = subject_id
        /\ level \in {"undefined", ""} \/ groups[g].level = level \/ groups[g].level = "mixed"}

\* C24: the step in which a group-mode match is answered 200 returns groups of the
\* requested subject only, with the requested level or 'mixed' when a level is given
\* and of any level when none is; strictly newest first; all of them when they are
\* at most 50 and else 50, every group left out being older than every one returned;
\* each with member_count equal to its number of membership rows.
C24_MatchGroups ==
    [][ \A c \in CallIds :
          (calls[c].endpoint = "match" /\ calls[c].body.type = "group"
              /\ calls[c].pc = "handler" /\ calls'[c].status = 200) =>
              LET want == Wanted(calls[c].body.subject_id, calls[c].body.level)
                  res == calls'[c].result
                  got == {res[i].id : i \in 1..Len(res)}
              IN  /\ got \subseteq want
                  /\ Len(res) = IF Cardinality(want) < 50 THEN Cardinality(want) ELSE 50
                  /\ \A i, k \in 1..Len(res) :
                        i < k => groups[res[i].id].created_at > groups[res[k].id].created_at
                  /\ \A g \in want \ got : \A h \in got :
                        groups[g].created_at < groups[h].created_at
                  /\ \A i \in 1..Len(res) : res[i].member_count = RowsOf(res[i].id)
      ]_vars

\* C24 witness: a match for level 'advanced' on a table with more than 50 fitting
\* groups returned 50 rows, 'advanced' and 'mixed' ones among them, some with two
\* members, and left a fitting group out.
C24_Witness ==
    \E c \in CallIds :
        /\ calls[c].body.type = "group" /\ calls[c].body.level = "advanced"
        /\ calls[c].status = 200
        /\ Len(calls[c].result) = 50
        /\ Cardinality(Wanted(calls[c].body.subject_id, "advanced")) > 50
        /\ \E i, k \in 1..50 :
              /\ calls[c].result[i].level = "advanced" /\ calls[c].result[k].level = "mixed"
              /\ calls[c].result[i].member_count = 2

\* C25: every stored group has max_members >= 1, and 10 when its request omitted
\* max_members.
C25_PositiveCapacity ==
    /\ \A g \in GroupIds : groups[g].max_members >= 1
    /\ \A c \in CreateIds :
          (creates[c].groupId \in GroupIds /\ creates[c].max_members = 0)
              => groups[creates[c].groupId].max_members = 10

\* C26: a createGroup request that lacks title or subject_id writes no group row,
\* and when it is answered without a storage error the answer is 400.
C26_MissingFieldsRejected ==
    \A c \in CreateIds :
        (creates[c].title = 0 \/ creates[c].subject_id = 0) =>
            /\ creates[c].groupId = 0
            /\ (creates[c].pc = "done" /\ creates[c].status # 500) => creates[c].status = 400

\* C27: no step removes a group row or changes one of its fields, and no step takes
\* away a copy of a membership row.
C27_OnlyGrows ==
    [][ /\ Len(groups') >= Len(groups)
        /\ \A g \in GroupIds : groups'[g] = groups[g]
        /\ \A r \in BagToSet(group_members) :
              /\ r \in BagToSet(group_members')
              /\ group_members'[r] >= group_members[r]
      ]_vars

\* C27 witness: a second group has been created and a join has been admitted.
C27_Witness ==
    /\ Len(groups) = 2 /\ RowsOf(2) = 1
    /\ \E j \in JoinIds : Admitted(j) /\ RowsOf(joins[j].groupId) = 2

\* the membership rows of group g with role 'owner'
OwnerRoleRows(g) ==
    LET hit == {r \in BagToSet(group_members) : r.group_id = g /\ r.role = "owner"}
    IN  BagCardinality([r \in hit |-> group_members[r]])

\* C28: once createGroup has answered 201 its group has exactly one membership row
\* with role 'owner'; and every row with role 'owner', of any group, is the row of
\* that group's owner_id, so no join has written one.
C28_OneOwnerRow ==
    /\ \A c \in CreateIds :
          creates[c].status = 201 => OwnerRoleRows(creates[c].groupId) = 1
    /\ \A r \in BagToSet(group_members) :
          r.role = "owner" =>
              (r.group_id \in GroupIds /\ r.user_id = groups[r.group_id].owner_id)

\* C28 witness: the creator's own join was admitted between the two INSERTs of
\* createGroup, which then answered 201: the creator has two rows, one of them the
\* owner row.
C28_Witness ==
    \E c \in CreateIds, j \in JoinIds :
        /\ creates[c].status = 201
        /\ Admitted(j)
        /\ joins[j].user = creates[c].user /\ joins[j].groupId = creates[c].groupId
        /\ RowsOfUser(creates[c].groupId, creates[c].user) = 2
        /\ OwnerRoleRows(creates[c].groupId) = 1

\* C29: with a pool of any size from 1 up, fair scheduling and no storage failure,
\* every join and every createGroup request is answered in the end.
C29_AllComplete ==
    <>(/\ \A j \in JoinIds : joins[j].pc = "done" /\ joins[j].status # 0
       /\ \A c \in CreateIds : creates[c].pc = "done" /\ creates[c].status # 0)

\* C29 witness: every client of the pool is held by a join, one of them waiting for
\* the row lock another holds, while a third join waits for a client and createGroup
\* for one for its second INSERT.
C29_Witness ==
    /\ pool_max = 2 /\ ClientsInUse = 2
    /\ \E j1, j2, j3 \in JoinIds :
          /\ <<joins[j1].groupId, j1>> \in locks
          /\ joins[j2].pc = "select_group" /\ joins[j2].groupId = joins[j1].groupId
          /\ joins[j3].pc = "connect"
    /\ \E c \in CreateIds : creates[c].pc = "insert_owner"

\* C30: every membership row written by a join belongs to the user whose token some
\* join request carried and authMiddleware verified, for the group that request's
\* URL names; an owner row other than the first group's belongs to the verified user
\* of a createGroup request.
C30_RowForTokenUser ==
    \A r \in BagToSet(group_members) :
        \/ r = [group_id |-> 1, user_id |-> 1, role |-> "owner"]
        \/ /\ r.role = "owner"
           /\ \E c \in CallIds :
                 /\ calls[c].endpoint = "groups" /\ ~ BadHeader(calls[c].header)
                 /\ calls[c].header.token.id = r.user_id
        \/ /\ r.role # "owner"
           /\ \E c \in CallIds :
                 /\ calls[c].endpoint = "join" /\ ~ BadHeader(calls[c].header)
                 /\ calls[c].header.token.id = r.user_id
                 /\ calls[c].id = ToString(r.group_id)

\* C30 witness: user 2 joined group 1 with a good token, and a join request with a
\* forged token naming user 1 was answered 401.
C30_Witness ==
    /\ RowsOfUser(1, 2) = 1
    /\ \E c \in CallIds :
          /\ calls[c].endpoint = "join" /\ calls[c].id = "1"
          /\ calls[c].header.scheme = "Bearer"
          /\ calls[c].header.token.id = 1 /\ calls[c].header.token.secret # JWT_SECRET
          /\ calls[c].status = 401

\* a URL segment with no leading digit
NoLeadingDigit(p) == p \notin {"1", "2", "1x"}

\* C31: the step that a join request with an :id that is no integer takes after
\* authMiddleware answers it 400 'Invalid group ID' and changes nothing else: no join
\* is started (no client taken, no BEGIN), no lock is taken, no table changes.
C31_InvalidIdTurnedAway ==
    [][ \A c \in CallIds :
          (/\ calls[c].endpoint = "join" /\ calls[c].pc = "handler"
           /\ NoLeadingDigit(calls[c].id) /\ calls'[c] # calls[c]) =>
              /\ calls'[c].pc = "done" /\ calls'[c].status = 400
              /\ calls'[c].error = "Invalid group ID"
              /\ joins' = joins /\ locks' = locks
              /\ ClientsInUse' = ClientsInUse
              /\ groups' = groups /\ group_members' = group_members
              /\ creates' = creates /\ profiles' = profiles
              /\ user_subjects' = user_subjects /\ group_messages' = group_messages
      ]_vars

\* C31 witness: a join request for /api/groups/x/join passed authMiddleware and was
\* answered 400 'Invalid group ID' while another request's join holds the group's lock.
C31_Witness ==
    /\ \E c \in CallIds :
          /\ calls[c].endpoint = "join" /\ calls[c].id = "x"
          /\ calls[c].user # 0
          /\ calls[c].status = 400 /\ calls[c].error = "Invalid group ID"
    /\ Len(joins) = 1 /\ locks # {}

\* the profile calls of user u that were answered 200
ProfileWriters(u) ==
    {c \in CallIds : /\ calls[c].endpoint = "profile" /\ calls[c].user = u
                     /\ calls[c].status = 200}

\* C32 as written: once profile requests of one user were answered 200, in whatever
\* order their statements ran, the user's row equals the three fields of one of them,
\* each as the request gave it.
C32_OneRequestAsGiven ==
    \A u \in Users :
        ProfileWriters(u) # {} =>
            /\ u \in DOMAIN profiles
            /\ \E c \in ProfileWriters(u) :
                  profiles[u] = [bio |-> AsGiven(calls[c].body.bio),
                                 location |-> AsGiven(calls[c].body.location),
                                 availability |-> AsGiven(calls[c].body.availability)]

\* C32: once profile requests of one user were answered 200, in whatever order their
\* statements ran, the user has a row and it holds the three fields of one of the
\* requests as the handler binds them (a text as given, null for an omitted field or
\* an empty string), never columns of two requests; a user none of whose requests
\* was answered 200 has no row.
C32_OneRequestWhole ==
    \A u \in Users :
        IF ProfileWriters(u) = {}
          THEN u \notin DOMAIN profiles
          ELSE /\ u \in DOMAIN profiles
               /\ \E c \in ProfileWriters(u) :
                     profiles[u] = [bio |-> AsStored(calls[c].body.bio),
                                    location |-> AsStored(calls[c].body.location),
                                    availability |-> AsStored(calls[c].body.availability)]

\* C32 witness: two requests of one user that differ in every field, the second
\* omitting what the first gives as bio, were both answered 200 and the row holds
\* the fields of the first one.
C32_Witness ==
    /\ Len(calls) >= 2
    /\ calls[1].user = calls[2].user /\ calls[1].user # 0
    /\ calls[1].status = 200 /\ calls[2].status = 200
    /\ calls[1].body.bio \in Texts /\ calls[2].body.bio = "undefined"
    /\ calls[1].body.location \in Texts /\ calls[2].body.location \in Texts
    /\ calls[1].body.location # calls[2].body.location
    /\ calls[1].body.availability # calls[2].body.availability
    /\ profiles[calls[1].user] =
          [bio |-> calls[1].body.bio, location |-> calls[1].body.location,
           availability |-> AsStored(calls[1].body.availability)]

====
